---- MODULE Spec2Model ----
(***************************************************************************)
(* SegmentDriver: bit-banged driver for one MAX7219 8-digit 7-segment      *)
(* module (seven_segment_MAX7219.cpp / .h).                                *)
(*                                                                         *)
(* The driver object holds three pin numbers only; everything observable   *)
(* is what it does to the pins.  The model records, for the call that ran  *)
(* last, the pin events it produced (pins), the (instruction, data) pairs  *)
(* handed to sendSPI (frames) and its return value (ret), and keeps the    *)
(* registers of the device behind the link (regs), which samples the last  *)
(* 16 shifted bits on the rising edge of CS.                               *)
(***************************************************************************)
EXTENDS Integers, Sequences, FiniteSets, TLC

VARIABLES sizeofString, pc, calls, todo, cs, pins, frames, regs, op, ret

vars == <<sizeofString, pc, calls, todo, cs, pins, frames, regs, op, ret>>

(* ---------------------------------------------------------------------- *)
(* Program constants                                                      *)
(* ---------------------------------------------------------------------- *)
CTRL_DECODEMODE == 9
CTRL_INTENSITY == 10
CTRL_SCANLIMIT == 11
CTRL_SHUTDOWN == 12
CTRL_DISPLAYTEST == 15
ASCII_OFFSET == 45
DISPLAY_LENGTH == 8

\* asciiTableRef[k + 1] is the C array element asciiTableRef[k].
asciiTableRef ==
  << 1, 128, 0, 126, 48, 109, 121, 51, 91, 95, 112,
     127, 123, 0, 0, 0, 0, 0, 0,
     0, 119, 31, 13, 61, 79, 71, 123,
     55, 48, 56, 0, 14, 0, 21, 126,
     103, 0, 5, 91, 15, 62, 28, 0,
     0, 59, 0 >>

\* sizeof(asciiTableRef): 46 elements of one byte.
sizeofTable == Len(asciiTableRef)

(* ---------------------------------------------------------------------- *)
(* Bounds of the model                                                    *)
(* ---------------------------------------------------------------------- *)
\* Calls made on the driver after its construction.
MaxCalls == 3

\* sizeof(String) is not the length of the text but the size of the String
\* object, fixed by the build: 6 on AVR (pointer and two 16-bit fields),
\* 12 on 32-bit cores, 16 on ESP32 (small-string layout).
StringSizes == {6, 12, 16}

\* Segment patterns the digits may hold before the driver is constructed
\* (the device is not reset by a reset of the microcontroller).
PriorPatterns == {0, 255}

\* Arguments tried on the two range-checked setters: both ends of the range,
\* the values next to them, and 256, which as a byte would be 0.
BrightnessArgs == {-1, 0, 15, 16, 256}
ScanLimitArgs == {-1, 0, 7, 8, 256}

\* Positions and characters tried on setChar in call sequences: '8' (56),
\* ' ' (32) and 'a' (97); positions in and around 0..7.
PlaceArgs == {-1, 0, 7, 8, 11}
ChrArgs == {32, 56, 97}

\* Texts tried on setString: "", "AB", "12345678", "123456789".
TextArgs ==
  { <<>>, <<65, 66>>, <<49, 50, 51, 52, 53, 54, 55, 56>>,
    <<49, 50, 51, 52, 53, 54, 55, 56, 57>> }

(* ---------------------------------------------------------------------- *)
(* Arithmetic of the C types                                              *)
(* ---------------------------------------------------------------------- *)
\* Conversion of an int to byte (uint8_t).
Byte(x) == x % 256

\* Registers of the device that the model keeps (addresses 0x00..0x0F).
Registers == 0..15
DigitRegs == 1..DISPLAY_LENGTH

(* ---------------------------------------------------------------------- *)
(* The transmit primitive                                                 *)
(* ---------------------------------------------------------------------- *)
\* shiftOut(MOSI, CLK, MSBFIRST, val): eight data bits, each clocked by one
\* pulse of CLK, most significant bit first.
shiftOut(val) ==
  [i \in 1..8 |-> <<"SHIFT", (val \div (2 ^ (8 - i))) % 2>>]

\* The device: on the rising edge of CS the last 16 bits shifted in are
\* taken as (address, data) and the addressed register is written.
BitsValue(ev) ==
  LET RECURSIVE val(_)
      val(k) == IF k = 0 THEN 0 ELSE 2 * val(k - 1) + ev[k][2]
  IN val(Len(ev))

Latch(r, shifted) ==
  LET n == Len(shifted)
      addr == BitsValue(SubSeq(shifted, n - 15, n - 8))
      data == BitsValue(SubSeq(shifted, n - 7, n))
  IN IF n >= 16 /\ addr \in DOMAIN r THEN [r EXCEPT ![addr] = data] ELSE r

\* As sendSPI, with the two bytes shifted out in the wrong order.
sendSPI_swapped(self, data, instruction) ==
  LET d == Byte(data)
      ins == Byte(instruction)
      shifted == shiftOut(d) \o shiftOut(ins)
  IN [self EXCEPT
        !.cs = 1,
        !.pins = self.pins \o <<(<<"CS", 0>>)>> \o shifted \o <<(<<"CS", 1>>)>>,
        !.frames = Append(self.frames, <<ins, d>>),
        !.regs = Latch(self.regs, shifted),
        !.ret = 0]

\* int SegmentDriver::sendSPI(volatile byte data, volatile byte instruction)
sendSPI(self, data, instruction) ==
  LET d == Byte(data)
      ins == Byte(instruction)
      shifted == shiftOut(ins) \o shiftOut(d)
  IN [self EXCEPT
        !.cs = 1,
        !.pins = self.pins \o <<(<<"CS", 0>>)>> \o shifted \o <<(<<"CS", 1>>)>>,
        !.frames = Append(self.frames, <<ins, d>>),
        !.regs = Latch(self.regs, shifted),
        !.ret = 0]

(* ---------------------------------------------------------------------- *)
(* The driver object                                                      *)
(* ---------------------------------------------------------------------- *)
\* The object together with what the call in progress has produced so far.
\* size is the build's sizeof(String); r the registers of the device.
NewSelf(size, level, r) ==
  [sizeofString |-> size, cs |-> level, pins |-> <<>>, frames |-> <<>>,
   regs |-> r, ret |-> 0]

\* int SegmentDriver::turnOn()
turnOn(self) == sendSPI(self, 1, CTRL_SHUTDOWN)

\* int SegmentDriver::turnOff()
turnOff(self) == sendSPI(self, 0, CTRL_SHUTDOWN)

\* As setBrightness, with the upper limit off by one.
setBrightness_offByOne(self, value) ==
  IF value < 0 \/ value > 16
    THEN [self EXCEPT !.ret = -1]
    ELSE sendSPI(self, value, CTRL_INTENSITY)

\* int SegmentDriver::setBrightness(int value)
setBrightness(self, value) ==
  IF value < 0 \/ value > 15
    THEN [self EXCEPT !.ret = -1]
    ELSE sendSPI(self, value, CTRL_INTENSITY)

\* int SegmentDriver::setScanLimit(int limit)
setScanLimit(self, limit) ==
  IF limit < 0 \/ limit > 7
    THEN [self EXCEPT !.ret = -1]
    ELSE sendSPI(self, limit, CTRL_SCANLIMIT)

\* As setCharIndex, without the conversion of lower case to upper case.
setCharIndex_noUpper(chr) ==
  LET v2 == Byte(Byte(chr) - ASCII_OFFSET)
  IN IF v2 < 0 \/ v2 > sizeofTable THEN 2 ELSE v2

\* As setCharIndex, with the offset of '0' (48) in place of ASCII_OFFSET.
setCharIndex_offset48(chr) ==
  LET v0 == Byte(chr)
      v1 == IF v0 >= 97 /\ v0 <= 122 THEN Byte(v0 - 32) ELSE v0
      v2 == Byte(v1 - 48)
  IN IF v2 < 0 \/ v2 > sizeofTable THEN 2 ELSE v2

\* setChar, lines 115-130: the value of val when the table is read.  val is
\* a byte, so each assignment wraps modulo 256 and val < 0 is never true.
setCharIndex(chr) ==
  LET v0 == Byte(chr)
      v1 == IF v0 >= 97 /\ v0 <= 122 THEN Byte(v0 - 32) ELSE v0
      v2 == Byte(v1 - ASCII_OFFSET)
  IN IF v2 < 0 \/ v2 > sizeofTable THEN 2 ELSE v2

\* pgm_read_byte_near(asciiTableRef + val).  A read past the last element
\* yields whatever byte the linker placed after the table: beyond.
pgm_read_byte_near(val, beyond) ==
  IF val < sizeofTable THEN asciiTableRef[val + 1] ELSE beyond

\* The bytes a read of the table at val may yield.
ReadOutcomes(val) == IF val < sizeofTable THEN {0} ELSE 0..255

\* As setChar, addressing the digit by place instead of place + 1.
setChar_zeroBased(self, place, chr, beyond) ==
  sendSPI(self, pgm_read_byte_near(setCharIndex(chr), beyond), place)

\* int SegmentDriver::setChar(int place, char chr)
setChar(self, place, chr, beyond) ==
  sendSPI(self, pgm_read_byte_near(setCharIndex(chr), beyond), place + 1)

\* String::operator[] of the Arduino core: the character at index i, and 0
\* for an index at or beyond the length of the text.
charAt(string, i) == IF i < Len(string) THEN string[i + 1] ELSE 0

\* int SegmentDriver::setString(String string)
setString(self, string, beyond) ==
  LET len == IF self.sizeofString > 9 THEN 8 ELSE self.sizeofString - 1
      RECURSIVE loop(_, _)
      loop(s, i) ==
        IF i < len
          THEN loop(setChar(s, (DISPLAY_LENGTH - 1) - i, charAt(string, i), beyond),
                    i + 1)
          ELSE s
  IN [loop(self, 0) EXCEPT !.ret = 0]

\* The bytes the reads made by setString(string) may yield.
StringReadOutcomes(string) ==
  IF \E i \in 0..7 : setCharIndex(charAt(string, i)) >= sizeofTable
    THEN 0..255 ELSE {0}

\* "        ": the text clear() writes.
Spaces == [i \in 1..8 |-> 32]

\* void SegmentDriver::clear()
clear(self) ==
  LET RECURSIVE loop(_, _)
      loop(s, i) ==
        IF i < DISPLAY_LENGTH + 1
          THEN loop(setString(s, Spaces, 0), i + 1)
          ELSE s
  IN loop(self, 1)

\* SegmentDriver::SegmentDriver(int pinDIN, int pinCLK, int pinCS)
SegmentDriver(self) ==
  LET s0 == [self EXCEPT
               !.pins = <<(<<"MODE", "MOSI">>), <<"MODE", "CLK">>,
                          <<"MODE", "CS">>, <<"CS", 1>>>>,
               !.cs = 1]
      s1 == sendSPI(s0, 0, CTRL_DISPLAYTEST)
      s2 == setScanLimit(s1, 7)
      s3 == setBrightness(s2, 15)
      s4 == turnOn(s3)
      s5 == clear(s4)
  IN [s5 EXCEPT !.ret = 0]

(* ---------------------------------------------------------------------- *)
(* State machine                                                          *)
(* ---------------------------------------------------------------------- *)
\* The call that ran last.  index is the table index setChar read.
Call(name, arg, place, chr, text, index) ==
  [name |-> name, arg |-> arg, place |-> place, chr |-> chr, text |-> text,
   index |-> index]

NoCall == Call("none", 0, 0, 0, <<>>, 0)

\* Registers of a device whose digits all hold pattern d.
PriorRegs(d) == [r \in Registers |-> IF r \in DigitRegs THEN d ELSE 0]

\* The object as a call finds it: nothing emitted yet.
Self == NewSelf(sizeofString, cs, regs)

\* A call returns: what it emitted and the state it leaves.
Return(s, o) ==
  /\ cs' = s.cs
  /\ pins' = s.pins
  /\ frames' = s.frames
  /\ regs' = s.regs
  /\ ret' = s.ret
  /\ op' = o
  /\ UNCHANGED sizeofString

\* Before construction: the build is fixed, the pins are not driven, the
\* device holds what it held.
Init ==
  /\ sizeofString \in StringSizes
  /\ pc = "new"
  /\ calls = 0
  /\ todo = <<>>
  /\ cs = 0
  /\ pins = <<>>
  /\ frames = <<>>
  /\ \E d \in PriorPatterns : regs = PriorRegs(d)
  /\ op = NoCall
  /\ ret = 0

Construct ==
  /\ pc = "new"
  /\ pc' = "ready"
  /\ Return(SegmentDriver(Self), Call("construct", 0, 0, 0, <<>>, 0))
  /\ UNCHANGED <<calls, todo>>

\* A call made by the sketch on the constructed driver.
Ready == pc = "ready" /\ todo = <<>> /\ calls < MaxCalls

Called == calls' = calls + 1 /\ UNCHANGED <<pc, todo>>

TurnOn ==
  /\ Ready
  /\ Return(turnOn(Self), Call("turnOn", 0, 0, 0, <<>>, 0))
  /\ Called

TurnOff ==
  /\ Ready
  /\ Return(turnOff(Self), Call("turnOff", 0, 0, 0, <<>>, 0))
  /\ Called

SetBrightness ==
  /\ Ready
  /\ \E value \in BrightnessArgs :
       Return(setBrightness(Self, value),
              Call("setBrightness", value, 0, 0, <<>>, 0))
  /\ Called

SetScanLimit ==
  /\ Ready
  /\ \E limit \in ScanLimitArgs :
       Return(setScanLimit(Self, limit),
              Call("setScanLimit", limit, 0, 0, <<>>, 0))
  /\ Called

SetChar ==
  /\ Ready
  /\ \E place \in PlaceArgs, chr \in ChrArgs :
       \E beyond \in ReadOutcomes(setCharIndex(chr)) :
         Return(setChar(Self, place, chr, beyond),
                Call("setChar", 0, place, chr, <<>>, setCharIndex(chr)))
  /\ Called

SetString ==
  /\ Ready
  /\ \E string \in TextArgs :
       \E beyond \in StringReadOutcomes(string) :
         Return(setString(Self, string, beyond),
                Call("setString", 0, 0, 0, string, 0))
  /\ Called

Clear ==
  /\ Ready
  /\ Return(clear(Self), Call("clear", 0, 0, 0, <<>>, 0))
  /\ Called

Next ==
  \/ Construct
  \/ TurnOn
  \/ TurnOff
  \/ SetBrightness
  \/ SetScanLimit
  \/ SetChar
  \/ SetString
  \/ Clear

Spec == Init /\ [][Next]_vars

(* ---------------------------------------------------------------------- *)
(* setChar over every character value                                     *)
(* ---------------------------------------------------------------------- *)
\* The calls of one run: setChar(place, chr) for any position 0..7 and any
\* 8-bit character, or an upper-case letter followed by its lower-case
\* form at the same position.
Arg(place, chr) == [place |-> place, chr |-> chr]

Scripts ==
  { <<Arg(place, chr)>> : place \in 0..(DISPLAY_LENGTH - 1), chr \in 0..255 }
    \cup
  { <<Arg(place, chr - 32), Arg(place, chr)>> :
      place \in 0..(DISPLAY_LENGTH - 1), chr \in 97..122 }

\* After construction, with the calls to make drawn.
InitChar ==
  /\ sizeofString \in StringSizes
  /\ pc = "ready"
  /\ calls = 0
  /\ op = Call("construct", 0, 0, 0, <<>>, 0)
  /\ \E d \in PriorPatterns :
       LET s == SegmentDriver(NewSelf(sizeofString, 0, PriorRegs(d)))
       IN /\ cs = s.cs
          /\ pins = s.pins
          /\ frames = s.frames
          /\ regs = s.regs
          /\ ret = s.ret
  /\ todo \in Scripts

ScriptSetChar ==
  /\ pc = "ready"
  /\ todo # <<>>
  /\ LET a == Head(todo)
     IN \E beyond \in ReadOutcomes(setCharIndex(a.chr)) :
          Return(setChar(Self, a.place, a.chr, beyond),
                 Call("setChar", 0, a.place, a.chr, <<>>, setCharIndex(a.chr)))
  /\ todo' = Tail(todo)
  /\ calls' = calls + 1
  /\ UNCHANGED pc

NextChar == ScriptSetChar

SpecChar == InitChar /\ [][NextChar]_vars

(* ---------------------------------------------------------------------- *)
(* Properties                                                             *)
(* ---------------------------------------------------------------------- *)
\* The character code after folding lower case to upper case.
UpperCode(chr) == IF chr \in 97..122 THEN chr - 32 ELSE chr

\* The pattern of a character: its table entry, blank outside the table.
Glyph(chr) ==
  IF UpperCode(chr) - ASCII_OFFSET \in 0..(sizeofTable - 1)
    THEN asciiTableRef[UpperCode(chr) - ASCII_OFFSET + 1]
    ELSE 0

\* The instruction bytes of a sequence of frames.
Instructions(fs) == { fs[k][1] : k \in 1..Len(fs) }

ControlRegs ==
  {CTRL_DECODEMODE, CTRL_INTENSITY, CTRL_SCANLIMIT, CTRL_SHUTDOWN,
   CTRL_DISPLAYTEST}

\* A step that is a call of one of the operations on the constructed driver.
IsCall == calls' = calls + 1

\* C1: setChar reads the table at an index inside it (0..45) for every
\* character, and when the folded code less 45 is outside the table the
\* index is that of the blank (2) and the pattern sent is 0x00.
C1_IndexInsideTable ==
  op.name = "setChar" /\ op.place \in 0..7 =>
    /\ op.index \in 0..(sizeofTable - 1)
    /\ UpperCode(op.chr) - ASCII_OFFSET \notin 0..(sizeofTable - 1) =>
         op.index = 2 /\ frames = <<(<<op.place + 1, 0>>)>>

\* C2: setString of a text of length n < 8 sends frames to the n highest
\* positions only (digit registers 8 down to 9 - n); every other digit
\* keeps what it held before the call.
C2_ShortTextTouchesOnlyItsLength ==
  [][IsCall /\ op'.name = "setString" /\ Len(op'.text) < 8 =>
       /\ Len(frames') = Len(op'.text)
       /\ Instructions(frames') = (9 - Len(op'.text))..8
       /\ \A d \in DigitRegs \ ((9 - Len(op'.text))..8) : regs'[d] = regs[d]]_vars

\* C3: after clear() all eight digit registers hold the blank pattern.
C3_ClearBlanksAllDigits ==
  op.name = "clear" => \A d \in DigitRegs : regs[d] = 0

\* C4: setBrightness and setScanLimit reject an argument outside their
\* range (0..15, 0..7) with a non-zero status, touching no pin and no
\* register; in range they send the single frame (0x0A, v), (0x0B, l) and
\* return 0.
C4_RangeCheckedSetters ==
  [][IsCall /\ op'.name \in {"setBrightness", "setScanLimit"} =>
       LET top == IF op'.name = "setBrightness" THEN 15 ELSE 7
           reg == IF op'.name = "setBrightness"
                    THEN CTRL_INTENSITY ELSE CTRL_SCANLIMIT
       IN IF op'.arg < 0 \/ op'.arg > top
            THEN /\ ret' # 0
                 /\ frames' = <<>>
                 /\ pins' = <<>>
                 /\ cs' = cs
                 /\ regs' = regs
            ELSE /\ ret' = 0
                 /\ frames' = <<(<<reg, op'.arg>>)>>
                 /\ Len(SelectSeq(pins', LAMBDA e : e = <<"CS", 0>>)) = 1
                 /\ regs' = [regs EXCEPT ![reg] = op'.arg]]_vars

C4_Witness ==
  /\ op.name = "setBrightness"
  /\ op.arg = 16
  /\ ret = -1
  /\ frames = <<>>

\* The pin events of the last call that belong to frames: the constructor
\* first configures the three pins and raises CS.
FramePins == IF op.name = "construct" THEN SubSeq(pins, 5, Len(pins)) ELSE pins

\* C5: every frame is CS low, the 8 bits of the instruction most
\* significant first, the 8 bits of the data most significant first, CS
\* high; nothing else is on the pins, so no CS low falls inside a frame,
\* and CS is high between calls.
C5_FrameBrackets ==
  /\ Len(FramePins) = 18 * Len(frames)
  /\ \A k \in 1..Len(frames) :
       LET base == 18 * (k - 1)
       IN /\ FramePins[base + 1] = <<"CS", 0>>
          /\ FramePins[base + 18] = <<"CS", 1>>
          /\ \A j \in 2..17 : FramePins[base + j][1] = "SHIFT"
          /\ FramePins[base + 2][2] = frames[k][1] \div 128
          /\ FramePins[base + 10][2] = frames[k][2] \div 128
          /\ BitsValue(SubSeq(FramePins, base + 2, base + 9)) = frames[k][1]
          /\ BitsValue(SubSeq(FramePins, base + 10, base + 17)) = frames[k][2]
  /\ pc = "ready" => cs = 1

C5_Witness ==
  /\ op.name = "setString"
  /\ Len(frames) > 1
  /\ Len(pins) = 18 * Len(frames)

\* C6: setString of a text of 8 or more characters sends exactly 8 frames,
\* character i to digit register 8 - i, nothing of the characters from
\* index 8 on, and returns 0.
C6_EightCharactersRendered ==
  op.name = "setString" /\ Len(op.text) >= 8 =>
    /\ Len(frames) = 8
    /\ \A i \in 0..7 : frames[i + 1] = <<8 - i, Glyph(op.text[i + 1])>>
    /\ ret = 0

\* C7: setChar of a lower-case letter sends the frame that setChar of the
\* upper-case letter sends at the same position.
C7_LowerCaseAsUpperCase ==
  [][/\ IsCall
     /\ op.name = "setChar"
     /\ op'.name = "setChar"
     /\ op'.chr \in 97..122
     /\ op.chr = op'.chr - 32
     /\ op.place = op'.place
     => frames' = frames /\ pins' = pins]_vars

C7_Witness ==
  /\ calls = 2
  /\ op.name = "setChar"
  /\ op.chr = 97
  /\ op.place = 3
  /\ frames = <<(<<4, 119>>)>>

\* C8: the constructor raises CS, then sends display-test off (0x0F, 0),
\* scan limit 7 (0x0B, 7), a brightness in the lower half of 0..15
\* (0x0A, v), power on (0x0C, 1), and then only frames that blank the 8
\* digits.
C8_ConstructorSequence ==
  op.name = "construct" =>
    /\ pins[4] = <<"CS", 1>>
    /\ \A j \in 1..3 : pins[j][1] = "MODE"
    /\ Len(frames) > 4
    /\ frames[1] = <<CTRL_DISPLAYTEST, 0>>
    /\ frames[2] = <<CTRL_SCANLIMIT, 7>>
    /\ frames[3][1] = CTRL_INTENSITY
    /\ frames[3][2] \in 0..7
    /\ frames[4] = <<CTRL_SHUTDOWN, 1>>
    /\ \A k \in 5..Len(frames) : frames[k][1] \in DigitRegs /\ frames[k][2] = 0
    /\ \A d \in DigitRegs : regs[d] = 0

\* C9: setChar(p, c), p in 0..7, sends exactly one frame, addressed to
\* p + 1, carrying the table pattern of the folded code when that code is
\* in 45..90, and returns 0.
C9_SetCharFrame ==
  op.name = "setChar" /\ op.place \in 0..7 =>
    /\ Len(frames) = 1
    /\ Len(pins) = 18
    /\ frames[1][1] = op.place + 1
    /\ frames[1][1] \in DigitRegs
    /\ UpperCode(op.chr) \in 45..90 =>
         frames[1][2] = asciiTableRef[UpperCode(op.chr) - 45 + 1]
    /\ regs[op.place + 1] = frames[1][2]
    /\ ret = 0

C9_Witness ==
  /\ op.name = "setChar"
  /\ op.chr = 72
  /\ op.place = 0
  /\ frames = <<(<<1, 55>>)>>
  /\ ret = 0

\* C10 as stated: setChar with any position, setString and clear send
\* only frames addressed to the digit registers 1..8 and leave the control
\* registers as they were.
C10_AnyPosition ==
  [][IsCall /\ op'.name \in {"setChar", "setString", "clear"} =>
       /\ Instructions(frames') \subseteq DigitRegs
       /\ \A r \in ControlRegs : regs'[r] = regs[r]]_vars

\* C10 amended: setChar with a position in 0..7, setString and clear send
\* only frames addressed to the digit registers 1..8 and leave the control
\* registers as they were.
C10_PositionInRange ==
  [][/\ IsCall
     /\ op'.name \in {"setChar", "setString", "clear"}
     /\ op'.name = "setChar" => op'.place \in 0..7
     => /\ Instructions(frames') \subseteq DigitRegs
        /\ \A r \in ControlRegs : regs'[r] = regs[r]]_vars

C10_Witness ==
  /\ op.name = "setChar"
  /\ op.place = 7
  /\ op.chr = 56
  /\ frames = <<(<<8, 127>>)>>
  /\ regs[CTRL_SHUTDOWN] = 1

====
